---- MODULE Spec2Model ----
(***************************************************************************)
(* Model of src/pages/teacher.py: the teacher dashboard script.            *)
(*                                                                         *)
(* One Streamlit session is modelled.  Every user interaction re-runs the  *)
(* script top to bottom; pc is the position of the current run.  Text is   *)
(* modelled as a sequence of one-character strings, a DataFrame as a       *)
(* record [cols, rows] whose rows are functions from column names to cell  *)
(* values.  The Korean column names of the source are written in English:  *)
(*   "display_time" = 제출시간, "total_score" = 총점, "Qi_score" = Qi_점수 *)
(***************************************************************************)
EXTENDS Integers, Sequences, FiniteSets, TLC

VARIABLES
    logged_in,     \* st.session_state.logged_in
    password,      \* last value submitted through the password input
    failures,      \* consecutive failed login attempts (saturating history counter)
    pc,            \* position of the current script run
    search_id,     \* value of the sidebar text input
    data,          \* response.data of the query of this run
    fetch,         \* outcome of the query of this run: "none", "ok", "failed"
    fetches,       \* number of queries executed in this run
    raw_df,        \* raw_df of the main flow
    df,            \* df of the main flow
    metrics,       \* values handed to the four st.metric widgets
    charts,        \* values handed to the two charts
    table,         \* rows handed to st.dataframe
    student_data,  \* row chosen by the drill-down
    messages,      \* st.error / st.warning messages shown in this run
    exc            \* uncaught exception that ended the run

vars == <<logged_in, password, failures, pc, search_id, data, fetch, fetches,
          raw_df, df, metrics, charts, table, student_data, messages, exc>>

-----------------------------------------------------------------------------
(* Bounds *)

MaxRows == 2        \* records returned by one query
MaxFilterLen == 1   \* characters typed in the student_id search
MaxAttempts == 2    \* failed logins counted before the counter saturates
MaxLen == 3         \* length of the feedback strings of ScoreSpec

-----------------------------------------------------------------------------
(* Text *)

SeqsUpTo(S, n) == UNION {[1..k -> S] : k \in 0..n}

\* Python's None as a cell value (a one-element sequence holding a token
\* that is not a character, so that cells stay comparable with text).
None == <<"None">>

\* str(x)
Str(x) == IF x = None THEN <<"N", "o", "n", "e">> ELSE x

IsSpace(ch) == ch = " "

RECURSIVE LStrip(_)
LStrip(s) ==
    IF s = <<>> THEN s
    ELSE IF IsSpace(Head(s)) THEN LStrip(Tail(s)) ELSE s

RECURSIVE RStrip(_)
RStrip(s) ==
    IF s = <<>> THEN s
    ELSE IF IsSpace(s[Len(s)]) THEN RStrip(SubSeq(s, 1, Len(s) - 1)) ELSE s

\* str.strip()
Strip(s) == RStrip(LStrip(s))

\* str.startswith(p)
StartsWith(s, p) == Len(s) >= Len(p) /\ SubSeq(s, 1, Len(p)) = p

\* A variant that folds case before the test.
ScoreFolded(x) ==
    LET t == Strip(Str(x))
    IN  IF t # <<>> /\ t[1] \in {"O", "o"} THEN 1 ELSE 0

\* lambda x: 1 if str(x).strip().startswith("O") else 0
Score(x) == IF StartsWith(Strip(Str(x)), <<"O">>) THEN 1 ELSE 0

\* The characters ordered as Python orders them (space < digits < letters).
CharOrder == <<" ", ".", "0", "1", "2", "3", "4", "5", "6", "7", "8", "9", "a", "n">>
Ord(ch) == CHOOSE i \in 1..Len(CharOrder) : CharOrder[i] = ch

\* s <= t for Python strings
RECURSIVE StrLeq(_, _)
StrLeq(s, t) ==
    IF s = <<>> THEN TRUE
    ELSE IF t = <<>> THEN FALSE
    ELSE IF Head(s) = Head(t) THEN StrLeq(Tail(s), Tail(t))
    ELSE Ord(Head(s)) < Ord(Head(t))

\* One pattern character against one text character: "." matches any
\* character, every other character of the modelled alphabet is a literal.
ReMatchChar(p, ch) == p = "." \/ p = ch

\* re.search(pat, s) for patterns made of literals and "."
ReSearch(pat, s) ==
    \E i \in 0..(Len(s) - Len(pat)) :
        \A k \in 1..Len(pat) : ReMatchChar(pat[k], s[i + k])

\* Series.str.contains(pat): regex=True is the default
StrContains(s, pat) == ReSearch(pat, s)

-----------------------------------------------------------------------------
(* DataFrames *)

\* pd.DataFrame()
EmptyDataFrame == [cols |-> {}, rows |-> <<>>]

\* df.empty
IsEmpty(d) == d.cols = {} \/ d.rows = <<>>

\* pd.DataFrame(data): the union of the records' keys, missing cells None
DataFrame(recs) ==
    LET cs == UNION {DOMAIN recs[i] : i \in 1..Len(recs)}
    IN  [cols |-> cs,
         rows |-> [i \in 1..Len(recs) |->
                     [c \in cs |-> IF c \in DOMAIN recs[i] THEN recs[i][c] ELSE None]]]

\* df[c] = vals: one value per row
AssignColumn(d, c, vals) ==
    [cols |-> d.cols \cup {c},
     rows |-> [i \in 1..Len(d.rows) |->
                 [k \in d.cols \cup {c} |->
                     IF k = c THEN vals[i] ELSE d.rows[i][k]]]]

\* df[mask]: the rows whose mask entry is true, in order
RECURSIVE SelectRows(_, _)
SelectRows(rows, mask) ==
    IF rows = <<>> THEN <<>>
    ELSE (IF Head(mask) THEN <<Head(rows)>> ELSE <<>>)
             \o SelectRows(Tail(rows), Tail(mask))

\* df[c]
Column(d, c) == [i \in 1..Len(d.rows) |-> d.rows[i][c]]

RECURSIVE SumSeq(_)
SumSeq(s) == IF s = <<>> THEN 0 ELSE Head(s) + SumSeq(Tail(s))

RowSet(d) == {d.rows[i] : i \in 1..Len(d.rows)}

-----------------------------------------------------------------------------
(* Timestamps *)

\* A created_at value is the wall-clock text [day, hour] followed by the
\* offset text tz; "naive" stands for a value that carries no offset.
OffsetHours(tz) == IF tz = "+09:00" THEN 9 ELSE 0

\* pd.to_datetime: an offset-carrying value becomes an instant (hours since
\* day 0, UTC) that knows its zone; a value without offset stays naive.
ToDatetime(c) ==
    [aware |-> c.tz # "naive",
     hours |-> c.day * 24 + c.hour - OffsetHours(c.tz)]

\* pytz.timezone('Asia/Seoul'): UTC+9, no daylight saving
KstOffset == 9

\* .dt.tz_convert(kst): the wall clock of the instant in Asia/Seoul
TzConvert(t) == t.hours + KstOffset

Digits == <<"0", "1", "2", "3", "4", "5", "6", "7", "8", "9">>
TwoDigits(n) == <<Digits[(n \div 10) + 1], Digits[(n % 10) + 1]>>

\* .dt.strftime('%Y-%m-%d %H:%M:%S'), of which the day and the hour vary
Strftime(wall) == TwoDigits(wall \div 24) \o <<" ">> \o TwoDigits(wall % 24)

-----------------------------------------------------------------------------
(* The data source: table student_submissions *)

StudentIds == {<<"1", "2">>, <<"2">>}

RawTimes == {[day |-> 1, hour |-> 16], [day |-> 2, hour |-> 9]}

TimeZones == {"naive", "+00:00"}

\* feedback_1..3 of one submission
FeedbackTriples ==
    {<<<<"O", ":">>, <<"O", ":">>, <<"O", ":">>>>,
     <<<<"O", ":">>, <<"X", ":">>, None>>,
     <<<<" ", "o">>, <<>>, <<"X", ":">>>>}

BaseColumns ==
    {"student_id", "created_at", "answer_1", "answer_2", "answer_3",
     "feedback_1", "feedback_2", "feedback_3"}

OptionalColumns == {"created_at", "feedback_1", "feedback_2", "feedback_3"}

\* The column sets the table may have: all columns, one optional column
\* missing, or one extra column whose name ends in the score suffix.
ColumnSets ==
    {BaseColumns, BaseColumns \cup {"bonus_score"}}
        \cup {BaseColumns \ {c} : c \in OptionalColumns}

RawRecord(cs, id, t, tz, fb) ==
    [c \in cs |->
        CASE c = "student_id" -> id
          [] c = "created_at" -> [day |-> t.day, hour |-> t.hour, tz |-> tz]
          [] c = "feedback_1" -> fb[1]
          [] c = "feedback_2" -> fb[2]
          [] c = "feedback_3" -> fb[3]
          [] c = "bonus_score" -> 5
          [] OTHER -> <<"a">>]

\* The records a query may return for one table layout
RawRecords(cs, tz) ==
    {RawRecord(cs, id, t, tz, fb) :
        id \in StudentIds, t \in RawTimes, fb \in FeedbackTriples}

\* supabase.table("student_submissions").select("*").execute().data
QueryResults ==
    UNION {SeqsUpTo(RawRecords(cs, tz), MaxRows) :
              cs \in ColumnSets, tz \in TimeZones}

-----------------------------------------------------------------------------
(* The session *)

\* st.secrets["TEACHER_PASSWORD"]
TEACHER_PASSWORD == "4321"

Passwords == {"4321", "4321 ", ""}

Filters == SeqsUpTo({"1", "."}, MaxFilterLen)

NoMetrics == [shown |-> FALSE]
NoCharts == [shown |-> FALSE]
NoRow == [c \in {} |-> 0]

\* The state a script run starts from
RunStart ==
    /\ data' = <<>>
    /\ fetch' = "none"
    /\ fetches' = 0
    /\ raw_df' = EmptyDataFrame
    /\ df' = EmptyDataFrame
    /\ metrics' = NoMetrics
    /\ charts' = NoCharts
    /\ table' = <<>>
    /\ student_data' = NoRow
    /\ messages' = {}
    /\ exc' = "none"

Init ==
    /\ logged_in = FALSE
    /\ password = ""
    /\ failures = 0
    /\ pc = "start"
    /\ search_id = <<>>
    /\ data = <<>>
    /\ fetch = "none"
    /\ fetches = 0
    /\ raw_df = EmptyDataFrame
    /\ df = EmptyDataFrame
    /\ metrics = NoMetrics
    /\ charts = NoCharts
    /\ table = <<>>
    /\ student_data = NoRow
    /\ messages = {}
    /\ exc = "none"

\* if not st.session_state.logged_in: title, check_password(), st.stop()
Gate ==
    /\ pc = "start"
    /\ pc' = IF logged_in THEN "load_data" ELSE "login"
    /\ UNCHANGED <<logged_in, password, failures, search_id, data, fetch,
                   fetches, raw_df, df, metrics, charts, table, student_data,
                   messages, exc>>

\* A variant that accepts every non-empty password.
check_password_any(p) ==
    /\ pc = "login"
    /\ password' = p
    /\ IF p # ""
       THEN /\ logged_in' = TRUE
            /\ failures' = 0
            /\ pc' = "start"
            /\ messages' = {}
       ELSE /\ logged_in' = logged_in
            /\ failures' = IF failures < MaxAttempts THEN failures + 1 ELSE failures
            /\ pc' = "login"
            /\ messages' = {"auth_error"}
    /\ UNCHANGED <<search_id, data, fetch, fetches, raw_df, df, metrics,
                   charts, table, student_data, exc>>

\* The login button pressed with p in the password input: the run it
\* triggers reaches check_password with st.button(...) true.
check_password(p) ==
    /\ pc = "login"
    /\ password' = p
    /\ IF p = TEACHER_PASSWORD
       THEN /\ logged_in' = TRUE
            /\ failures' = 0
            /\ pc' = "start"
            /\ messages' = {}
       ELSE /\ logged_in' = logged_in
            /\ failures' = IF failures < MaxAttempts THEN failures + 1 ELSE failures
            /\ pc' = "login"
            /\ messages' = {"auth_error"}
    /\ UNCHANGED <<search_id, data, fetch, fetches, raw_df, df, metrics,
                   charts, table, student_data, exc>>

-----------------------------------------------------------------------------
(* load_data and process_scores *)

\* The two columns load_data writes when created_at is present
WithDisplayTime(d) ==
    LET parsed == AssignColumn(d, "created_at",
                     [i \in 1..Len(d.rows) |-> ToDatetime(d.rows[i]["created_at"])])
    IN  AssignColumn(parsed, "display_time",
                     [i \in 1..Len(d.rows) |->
                         Strftime(TzConvert(parsed.rows[i]["created_at"]))])

\* tz_convert raises TypeError on a column of naive timestamps
TzConvertRaises(d) ==
    \E i \in 1..Len(d.rows) : ~ToDatetime(d.rows[i]["created_at"]).aware

\* A variant whose try block has no except clause.
load_data_uncaught ==
    /\ pc = "load_data"
    /\ fetches' = fetches + 1
    /\ \/ /\ fetch' = "failed"
          /\ data' = <<>>
          /\ raw_df' = EmptyDataFrame
          /\ messages' = messages
          /\ pc' = "crashed"
          /\ exc' = "Exception"
       \/ \E recs \in QueryResults :
            /\ fetch' = "ok"
            /\ data' = recs
            /\ pc' = "process_scores"
            /\ exc' = exc
            /\ IF recs = <<>>
               THEN raw_df' = EmptyDataFrame /\ messages' = messages
               ELSE LET d == DataFrame(recs)
                    IN  IF "created_at" \in d.cols
                        THEN IF TzConvertRaises(d)
                             THEN /\ raw_df' = EmptyDataFrame
                                  /\ messages' = messages \cup {"load_error"}
                             ELSE /\ raw_df' = WithDisplayTime(d)
                                  /\ messages' = messages
                        ELSE raw_df' = d /\ messages' = messages
    /\ UNCHANGED <<logged_in, password, failures, search_id, df, metrics,
                   charts, table, student_data>>

\* raw_df = load_data()
load_data ==
    /\ pc = "load_data"
    /\ fetches' = fetches + 1
    /\ \/ \* the query raises: except Exception, st.error, empty DataFrame
          /\ fetch' = "failed"
          /\ data' = <<>>
          /\ raw_df' = EmptyDataFrame
          /\ messages' = messages \cup {"load_error"}
       \/ \E recs \in QueryResults :
            /\ fetch' = "ok"
            /\ data' = recs
            /\ IF recs = <<>>
               THEN raw_df' = EmptyDataFrame /\ messages' = messages
               ELSE LET d == DataFrame(recs)
                    IN  IF "created_at" \in d.cols
                        THEN IF TzConvertRaises(d)
                             THEN /\ raw_df' = EmptyDataFrame
                                  /\ messages' = messages \cup {"load_error"}
                             ELSE /\ raw_df' = WithDisplayTime(d)
                                  /\ messages' = messages
                        ELSE raw_df' = d /\ messages' = messages
    /\ pc' = "process_scores"
    /\ UNCHANGED <<logged_in, password, failures, search_id, df, metrics,
                   charts, table, student_data, exc>>

FeedbackCol == <<"feedback_1", "feedback_2", "feedback_3">>
ScoreCol == <<"Q1_score", "Q2_score", "Q3_score">>

\* c.endswith('_점수') over the column names of the model.  The total column
\* (총점) does not carry the suffix in the source.
EndsWithScoreSuffix(c) == c \in {"Q1_score", "Q2_score", "Q3_score", "bonus_score"}

\* One pass of the loop body: the score column of question i
WithScore(d, i) ==
    IF FeedbackCol[i] \in d.cols
    THEN AssignColumn(d, ScoreCol[i],
                      [k \in 1..Len(d.rows) |-> Score(d.rows[k][FeedbackCol[i]])])
    ELSE d

RECURSIVE SumOver(_, _)
SumOver(row, cs) ==
    IF cs = {} THEN 0
    ELSE LET c == CHOOSE x \in cs : TRUE
         IN  row[c] + SumOver(row, cs \ {c})

\* df['총점'] = df[score_cols].sum(axis=1), when score_cols is not empty
WithTotal(d) ==
    LET score_cols == {c \in d.cols : EndsWithScoreSuffix(c)}
    IN  IF score_cols # {}
        THEN AssignColumn(d, "total_score",
                          [i \in 1..Len(d.rows) |-> SumOver(d.rows[i], score_cols)])
        ELSE d

Scored(d) ==
    IF IsEmpty(d) THEN d
    ELSE WithTotal(WithScore(WithScore(WithScore(d, 1), 2), 3))

\* df = process_scores(raw_df): the columns are added to raw_df itself
process_scores ==
    /\ pc = "process_scores"
    /\ df' = Scored(raw_df)
    /\ raw_df' = Scored(raw_df)
    /\ pc' = "empty_check"
    /\ UNCHANGED <<logged_in, password, failures, search_id, data, fetch,
                   fetches, metrics, charts, table, student_data, messages, exc>>

-----------------------------------------------------------------------------
(* Main flow *)

\* if df.empty: st.warning(...); st.stop()
\* The sidebar input is not rendered by a run that stops here, so its value
\* is dropped by the session.
empty_check ==
    /\ pc = "empty_check"
    /\ IF IsEmpty(df)
       THEN /\ messages' = messages \cup {"no_data"}
            /\ pc' = "stopped"
            /\ search_id' = <<>>
       ELSE /\ messages' = messages
            /\ pc' = "filter"
            /\ search_id' = search_id
    /\ UNCHANGED <<logged_in, password, failures, data, fetch, fetches,
                   raw_df, df, metrics, charts, table, student_data, exc>>

\* if search_id: df = df[df['student_id'].str.contains(search_id)]
filter ==
    /\ pc = "filter"
    /\ df' = IF search_id # <<>>
             THEN [df EXCEPT !.rows =
                      SelectRows(df.rows,
                                 [i \in 1..Len(df.rows) |->
                                     StrContains(df.rows[i]["student_id"], search_id)])]
             ELSE df
    /\ pc' = "metrics"
    /\ UNCHANGED <<logged_in, password, failures, search_id, data, fetch,
                   fetches, raw_df, metrics, charts, table, student_data,
                   messages, exc>>

NaN == [nan |-> TRUE, tenths |-> 0]

\* Series.mean() * scale as the number shown with one decimal ('.1f'):
\* tenths, rounded half to even; NaN for an empty series
Mean(vals, scale) ==
    IF vals = <<>> THEN NaN
    ELSE LET n == Len(vals)
             q == (10 * scale * SumSeq(vals)) \div n
             r == (10 * scale * SumSeq(vals)) % n
         IN  [nan |-> FALSE,
              tenths |-> IF 2 * r < n THEN q
                         ELSE IF 2 * r > n THEN q + 1
                         ELSE IF q % 2 = 0 THEN q ELSE q + 1]

\* Series.max() of a text column; nan for an empty series
StrMax(vals) ==
    IF vals = <<>> THEN <<"n", "a", "n">>
    ELSE LET S == {vals[i] : i \in 1..Len(vals)}
         IN  CHOOSE s \in S : \A t \in S : StrLeq(t, s)

\* Section 4: the four metrics.  df['총점'] and df['제출시간'] raise KeyError
\* when the column does not exist.
show_metrics ==
    /\ pc = "metrics"
    /\ IF "total_score" \notin df.cols
       THEN /\ pc' = "crashed"
            /\ exc' = "KeyError total_score"
            /\ metrics' = metrics
       ELSE IF "display_time" \notin df.cols
       THEN /\ pc' = "crashed"
            /\ exc' = "KeyError display_time"
            /\ metrics' = metrics
       ELSE /\ pc' = "charts"
            /\ exc' = exc
            /\ metrics' =
                 [shown |-> TRUE,
                  total_students |-> Len(df.rows),
                  avg_score |-> Mean(Column(df, "total_score"), 1),
                  perfect_score_count |->
                      Len(SelectRows(df.rows,
                                     [i \in 1..Len(df.rows) |->
                                         df.rows[i]["total_score"] = 3])),
                  latest |-> StrMax(Column(df, "display_time"))]
    /\ UNCHANGED <<logged_in, password, failures, search_id, data, fetch,
                   fetches, raw_df, df, charts, table, student_data, messages>>

\* df['총점'].value_counts().sort_index(): the number of rows per total
ValueCounts(vals) ==
    LET S == {vals[i] : i \in 1..Len(vals)}
    IN  [v \in S |-> Cardinality({i \in 1..Len(vals) : vals[i] = v})]

\* Section 5: the two charts.  df[['Q1_점수', 'Q2_점수', 'Q3_점수']] raises
\* KeyError when one of the columns does not exist.
show_charts ==
    /\ pc = "charts"
    /\ IF \E i \in 1..3 : ScoreCol[i] \notin df.cols
       THEN /\ pc' = "crashed"
            /\ exc' = "KeyError Qi_score"
            /\ charts' = charts
       ELSE /\ pc' = "table"
            /\ exc' = exc
            /\ charts' =
                 [shown |-> TRUE,
                  q_stats |-> [i \in 1..3 |-> Mean(Column(df, ScoreCol[i]), 100)],
                  score_counts |-> ValueCounts(Column(df, "total_score"))]
    /\ UNCHANGED <<logged_in, password, failures, search_id, data, fetch,
                   fetches, raw_df, df, metrics, table, student_data, messages>>

display_cols ==
    {"student_id", "total_score", "Q1_score", "Q2_score", "Q3_score", "display_time"}

\* The orders sort_values(by='제출시간', ascending=False) may produce: rows
\* with equal keys come in any order (the default sort is not stable).
SortedDescending(rows) ==
    {p \in [1..Len(rows) -> 1..Len(rows)] :
        /\ \A i, j \in 1..Len(rows) : i # j => p[i] # p[j]
        /\ \A i \in 1..(Len(rows) - 1) :
              StrLeq(rows[p[i + 1]]["display_time"], rows[p[i]]["display_time"])}

\* Section 6: the results table, a sorted copy of the display columns
show_table ==
    /\ pc = "table"
    /\ IF ~(display_cols \subseteq df.cols)
       THEN /\ pc' = "crashed"
            /\ exc' = "KeyError display_cols"
            /\ table' = table
       ELSE /\ pc' = "drilldown"
            /\ exc' = exc
            /\ \E p \in SortedDescending(df.rows) :
                 table' = [i \in 1..Len(df.rows) |->
                             [c \in display_cols |-> df.rows[p[i]][c]]]
    /\ UNCHANGED <<logged_in, password, failures, search_id, data, fetch,
                   fetches, raw_df, df, metrics, charts, student_data, messages>>

\* The keys the drill-down reads from student_data
drilldown_keys ==
    {"student_id", "total_score", "display_time",
     "answer_1", "answer_2", "answer_3",
     "feedback_1", "feedback_2", "feedback_3",
     "Q1_score", "Q2_score", "Q3_score"}

\* df[df['student_id'] == selected_student].iloc[-1]
LastRowOf(d, sel) ==
    LET rs == SelectRows(d.rows,
                         [i \in 1..Len(d.rows) |-> d.rows[i]["student_id"] = sel])
    IN  rs[Len(rs)]

\* Section 7: st.selectbox over df['student_id'].unique(), then the last row
\* of the selected student.  With no option the selectbox returns None.
drilldown ==
    /\ pc = "drilldown"
    /\ IF df.rows = <<>>
       THEN /\ student_data' = student_data
            /\ pc' = "done"
            /\ exc' = exc
       ELSE \E selected_student \in {df.rows[i]["student_id"] : i \in 1..Len(df.rows)} :
              IF selected_student = <<>>
              THEN /\ student_data' = student_data
                   /\ pc' = "done"
                   /\ exc' = exc
              ELSE /\ student_data' = LastRowOf(df, selected_student)
                   /\ IF drilldown_keys \subseteq df.cols
                      THEN pc' = "done" /\ exc' = exc
                      ELSE pc' = "crashed" /\ exc' = "KeyError student_data"
    /\ UNCHANGED <<logged_in, password, failures, search_id, data, fetch,
                   fetches, raw_df, df, metrics, charts, table, messages>>

\* The user presses the refresh button: st.cache_data.clear(); st.rerun()
refresh ==
    /\ pc \in {"done", "stopped", "crashed"}
    /\ pc' = "start"
    /\ RunStart
    /\ UNCHANGED <<logged_in, password, failures, search_id>>

\* The user types f in the sidebar input, which re-runs the script
search(f) ==
    /\ pc \in {"done", "crashed"}
    /\ f # search_id
    /\ search_id' = f
    /\ pc' = "start"
    /\ RunStart
    /\ UNCHANGED <<logged_in, password, failures>>

Next ==
    \/ Gate
    \/ \E p \in Passwords : check_password(p)
    \/ load_data
    \/ process_scores
    \/ empty_check
    \/ filter
    \/ show_metrics
    \/ show_charts
    \/ show_table
    \/ drilldown
    \/ refresh
    \/ \E f \in Filters : search(f)

Spec == Init /\ [][Next]_vars

-----------------------------------------------------------------------------
(* process_scores over feedback strings *)

FeedbackChars == {"O", "o", "X", " "}

FeedbackStrings == SeqsUpTo(FeedbackChars, MaxLen) \cup {None}

\* A logged-in run that has loaded one record whose feedback_1 is s
ScoreInit ==
    \E s \in FeedbackStrings :
        LET rec == RawRecord(BaseColumns, <<"2">>, [day |-> 1, hour |-> 16],
                             "+00:00", <<s, <<"X", ":">>, None>>)
        IN  /\ logged_in = TRUE
            /\ password = TEACHER_PASSWORD
            /\ failures = 0
            /\ pc = "process_scores"
            /\ search_id = <<>>
            /\ data = <<rec>>
            /\ fetch = "ok"
            /\ fetches = 1
            /\ raw_df = WithDisplayTime(DataFrame(<<rec>>))
            /\ df = EmptyDataFrame
            /\ metrics = NoMetrics
            /\ charts = NoCharts
            /\ table = <<>>
            /\ student_data = NoRow
            /\ messages = {}
            /\ exc = "none"

ScoreNext == process_scores \/ empty_check

ScoreSpec == ScoreInit /\ [][ScoreNext]_vars

-----------------------------------------------------------------------------
(* Properties *)

\* x, once its leading blanks are skipped, starts with one of the marks
LeadsWith(x, marks) ==
    /\ x # None
    /\ \E k \in 1..Len(x) : x[k] \in marks /\ \A j \in 1..(k - 1) : x[j] = " "

ScoredCells ==
    {<<r, i>> \in RowSet(df) \X (1..3) : ScoreCol[i] \in df.cols}

C2_TotalIsSumOfThree ==
    ~IsEmpty(df) =>
        \A r \in RowSet(df) :
            /\ {"Q1_score", "Q2_score", "Q3_score", "total_score"} \subseteq DOMAIN r
            /\ r["total_score"] = r["Q1_score"] + r["Q2_score"] + r["Q3_score"]
            /\ r["total_score"] \in 0..3

\* C3: the row the drill-down selects is a row of the selected student whose
\* display time is the greatest among that student's rows, whatever the
\* order of the fetched records.
C3_DrilldownSelectsLatest ==
    student_data # NoRow =>
        /\ student_data \in RowSet(df)
        /\ \A r \in RowSet(df) :
              r["student_id"] = student_data["student_id"]
                  => StrLeq(r["display_time"], student_data["display_time"])

\* f occurs in s as a contiguous run of characters
LiteralContains(s, f) ==
    \E i \in 0..(Len(s) - Len(f)) : SubSeq(s, i + 1, i + Len(f)) = f

\* C4: with a non-empty search text f, the filtered rows are rows of the
\* loaded table and are exactly those whose student_id contains f literally.
C4_FilterIsLiteralSubstring ==
    (pc \in {"metrics", "charts", "table", "drilldown", "done", "crashed"}
        /\ search_id # <<>>) =>
        /\ RowSet(df) \subseteq RowSet(raw_df)
        /\ \A r \in RowSet(raw_df) :
              r \in RowSet(df) <=> LiteralContains(r["student_id"], search_id)

\* C5: a missing feedback_i (None in a row, or no such column) never raises:
\* every row of the scored table has Qi_score = 0 for it and the later
\* stages that read the score columns do not fail.
C5_MissingFeedbackScoresZero ==
    /\ exc \notin {"KeyError Qi_score", "KeyError total_score"}
    /\ ~IsEmpty(df) =>
          \A r \in RowSet(df) : \A i \in 1..3 :
              (FeedbackCol[i] \notin df.cols \/ r[FeedbackCol[i]] = None)
                  => (ScoreCol[i] \in df.cols /\ r[ScoreCol[i]] = 0)

\* C6: a table with zero rows never reaches the statistics: the run stops in
\* the "no data" state, whether the load or the filter left no row.
C6_ZeroRowsShortCircuit ==
    /\ metrics.shown => metrics.total_students > 0
    /\ charts.shown => df.rows # <<>>
    /\ (pc \in {"metrics", "charts", "table", "drilldown", "done", "crashed"})
          => df.rows # <<>>

\* C7: a failed query does not propagate: load_data returns an empty table
\* and shows a message, the run ends in the "no data" state without
\* statistics, and every run past load_data has executed exactly one query
\* (a re-run fetches again, a failed run does not retry).
C7_FetchFailureContained ==
    /\ fetch = "failed" =>
          /\ pc \in {"process_scores", "empty_check", "stopped"}
          /\ exc = "none"
          /\ IsEmpty(raw_df) /\ IsEmpty(df)
          /\ "load_error" \in messages
          /\ pc = "stopped" => "no_data" \in messages
          /\ ~metrics.shown /\ ~charts.shown
          /\ table = <<>> /\ student_data = NoRow
    /\ pc \notin {"start", "login", "load_data"} => (fetches = 1 /\ fetch # "none")

\* A run stopped in the "no data" state after a failed query
C7_Witness == fetch = "failed" /\ pc = "stopped" /\ "load_error" \in messages

TimeUnknown == <<"time unknown">>

\* C8: when the fetched records have no created_at, load_data yields one
\* row per record with the display time set to the "time unknown" sentinel
\* and no later stage fails on the display time.
C8_AbsentCreatedAtGetsSentinel ==
    (data # <<>> /\ "created_at" \notin DOMAIN data[1]) =>
        /\ Len(raw_df.rows) = Len(data)
        /\ "display_time" \in raw_df.cols
        /\ \A r \in RowSet(raw_df) : r["display_time"] = TimeUnknown
        /\ exc # "KeyError display_time"

\* C9: nothing is fetched or shown while logged_in is false; logged_in turns
\* true only on a password equal to the secret; a wrong password leaves it
\* false, shows an error and prompts again, however many attempts failed,
\* and the right password is accepted after any number of failures.
C9_PasswordGate ==
    /\ [](pc \notin {"start", "login"} => logged_in)
    /\ [](~logged_in =>
             /\ fetches = 0 /\ fetch = "none" /\ data = <<>>
             /\ ~metrics.shown /\ ~charts.shown
             /\ table = <<>> /\ student_data = NoRow)
    /\ [][(~logged_in /\ logged_in') => password' = TEACHER_PASSWORD]_vars
    /\ [][pc = "login" =>
             IF password' = TEACHER_PASSWORD
             THEN logged_in' /\ pc' = "start"
             ELSE ~logged_in' /\ pc' = "login" /\ "auth_error" \in messages']_vars

\* The login page shown again after MaxAttempts wrong passwords
C9_Witness ==
    /\ pc = "login" /\ ~logged_in
    /\ failures = MaxAttempts
    /\ password # TEACHER_PASSWORD
    /\ "auth_error" \in messages

\* created_at as an instant, a value without offset read as UTC, shown as
\* the Asia/Seoul wall clock
KstText(c) == Strftime(c.day * 24 + c.hour - OffsetHours(c.tz) + 9)

\* C10: every record with a created_at gets the display time of that
\* instant in Asia/Seoul; a value without offset is read as UTC, and the
\* load neither fails nor comes back empty.
C10_DisplayTimeIsKst ==
    (data # <<>> /\ "created_at" \in DOMAIN data[1]) =>
        /\ "load_error" \notin messages
        /\ Len(raw_df.rows) = Len(data)
        /\ \A i \in 1..Len(data) :
              raw_df.rows[i]["display_time"] = KstText(data[i]["created_at"])

====
